---- MODULE Spec2Model ----
(***************************************************************************)
(* torchgeo/datasets/etci2021.py: the ETCI2021 dataset (constructor, file  *)
(* index, sample loader) and the ETCI2021DataModule (prepare_data, setup,  *)
(* preprocess) as state machines over a model of the directory tree.       *)
(*                                                                         *)
(* A path is a record [dir, folder, kind, name]: dir is <<root, directory>>*)
(* of the split, folder the flood-event folder under it, kind the          *)
(* sub-directory of folder/tiles and name the .png file's name.  Names and *)
(* folders are numbers; their numeric order stands for the lexicographic   *)
(* order of the path strings that sorted() uses.                           *)
(***************************************************************************)
EXTENDS Integers, Sequences, FiniteSets, TLC

VARIABLES
    disk,     \* the directory tree: [<<root, directory>> -> tree] of the directories that exist
    remote,   \* the tree the split's archive holds (what a download extracts)
    ds,       \* the ETCI2021 object under construction and its arguments
    sample,   \* the sample the last __getitem__ built
    dm,       \* the ETCI2021DataModule object
    gpu,      \* per process: the datasets setup() assigned
    target    \* a mask file pair going through _load_target and preprocess

vars == <<disk, remote, ds, sample, dm, gpu, target>>

----------------------------------------------------------------------------
(* Bounds of the model *)

MaxFolders == 2    \* folders under a split directory
MaxFiles == 2      \* .png files per kind in a folder
MaxSamples == 5    \* samples of the train split seen by the data module
MaxSeed == 1       \* seeds 0..MaxSeed
MaxSetups == 2     \* setup() calls per process

----------------------------------------------------------------------------
(* Generic helpers *)

Range(s) == {s[i] : i \in 1..Len(s)}

Min(S) == CHOOSE x \in S : \A y \in S : x <= y

RECURSIVE Ascending(_)
Ascending(S) == IF S = {} THEN <<>> ELSE <<Min(S)>> \o Ascending(S \ {Min(S)})

Reverse(s) == [i \in 1..Len(s) |-> s[Len(s) + 1 - i]]

Rotate(s) == IF s = <<>> THEN s ELSE Tail(s) \o <<Head(s)>>

----------------------------------------------------------------------------
(* Class attributes *)

metadata ==
    [train |-> [filename |-> "train.zip", directory |-> "train"],
     val   |-> [filename |-> "val_with_ref_labels.zip", directory |-> "test"],
     test  |-> [filename |-> "test_without_ref_labels.zip", directory |-> "test_internal"]]

Splits == DOMAIN metadata

Directories == {metadata[s].directory : s \in Splits}

Kinds == {"vv", "vh", "water_body_label", "flood_label"}

----------------------------------------------------------------------------
(* The file system *)

\* os.path.join(root, directory)
dirpath(root, directory) == <<root, directory>>

\* os.path.exists(dirpath)
exists(d, p) == p \in DOMAIN d

\* The orders in which the operating system may list a directory.
Orders == {"asc", "desc", "rot"}

Listing(S, ord) ==
    CASE ord = "asc" -> Ascending(S)
      [] ord = "desc" -> Reverse(Ascending(S))
      [] OTHER -> Rotate(Ascending(S))

\* glob.glob(os.path.join(root, directory, "*")): every entry of the split directory
glob_folders(d, p, ord) ==
    IF exists(d, p) THEN Listing(DOMAIN d[p], ord) ELSE <<>>

\* the "*.png" pattern
matches_png(entry) == entry.ext = "png"

\* glob.glob(os.path.join(folder, kind, "*.png")), folder being <entry>/tiles
glob_png(d, p, folder, kind, ord) ==
    LET names == {e.name : e \in {x \in d[p][folder][kind] : matches_png(x)}}
        ls == Listing(names, ord)
    IN  [i \in 1..Len(ls) |-> [dir |-> p, folder |-> folder, kind |-> kind, name |-> ls[i]]]

----------------------------------------------------------------------------
(* sorted() *)

\* string order of two paths of one glob: the folder, then the file name
PathLess(a, b) == a.folder < b.folder \/ (a.folder = b.folder /\ a.name < b.name)

RECURSIVE InsertSorted(_, _)
InsertSorted(x, s) ==
    IF s = <<>> THEN <<x>>
    ELSE IF PathLess(x, Head(s)) THEN <<x>> \o s
    ELSE <<Head(s)>> \o InsertSorted(x, Tail(s))

RECURSIVE SortPaths(_)
SortPaths(s) == IF s = <<>> THEN <<>> ELSE InsertSorted(Head(s), SortPaths(Tail(s)))

unsorted(s) == s

sorted(s) == SortPaths(s)

RECURSIVE InsertInt(_, _)
InsertInt(x, s) ==
    IF s = <<>> THEN <<x>>
    ELSE IF x < Head(s) THEN <<x>> \o s
    ELSE <<Head(s)>> \o InsertInt(x, Tail(s))

RECURSIVE SortInts(_)
SortInts(s) == IF s = <<>> THEN <<>> ELSE InsertInt(Head(s), SortInts(Tail(s)))

sorted_folders(s) == SortInts(s)

----------------------------------------------------------------------------
(* ETCI2021._load_files *)

\* zip(...) stops at the shortest of its arguments
zip_drop_last(lens) == IF Min(lens) > 0 THEN Min(lens) - 1 ELSE 0

zip_length(lens) == Min(lens)

\* dict(vv=vv, vh=vh, flood_mask=flood_mask, water_mask=water_mask)
record_train(vv, vh, flood_mask, water_mask) ==
    [vv |-> vv, vh |-> vh, flood_mask |-> flood_mask, water_mask |-> water_mask]

\* dict(vv=vv, vh=vh, water_mask=water_mask)
record_test(vv, vh, water_mask) == [vv |-> vv, vh |-> vh, water_mask |-> water_mask]

\* the body of the loop over folders: the records of one folder
folder_records(d, p, folder, split, ord) ==
    LET vvs == sorted(glob_png(d, p, folder, "vv", ord))
        vhs == sorted(glob_png(d, p, folder, "vh", ord))
        water_masks == sorted(glob_png(d, p, folder, "water_body_label", ord))
    IN  IF split # "test"
        THEN LET flood_masks == sorted(glob_png(d, p, folder, "flood_label", ord))
                 n == zip_length({Len(vvs), Len(vhs), Len(flood_masks), Len(water_masks)})
             IN  [k \in 1..n |-> record_train(vvs[k], vhs[k], flood_masks[k], water_masks[k])]
        ELSE LET n == zip_length({Len(vvs), Len(vhs), Len(water_masks)})
             IN  [k \in 1..n |-> record_test(vvs[k], vhs[k], water_masks[k])]

RECURSIVE concat_folders(_, _, _, _, _)
concat_folders(d, p, folders, split, ord) ==
    IF folders = <<>> THEN <<>>
    ELSE folder_records(d, p, Head(folders), split, ord)
         \o concat_folders(d, p, Tail(folders), split, ord)

_load_files(d, root, split, ord) ==
    LET p == dirpath(root, metadata[split].directory)
        folders == sorted_folders(glob_folders(d, p, ord))
    IN  concat_folders(d, p, folders, split, ord)

----------------------------------------------------------------------------
(* ETCI2021._check_integrity, _download, __init__ *)

\* split in self.metadata.keys()
valid_split_any(split) == TRUE

valid_split(split) == split \in DOMAIN metadata

exists_root_only(d, root, split) == \E p \in DOMAIN d : p[1] = root

\* True iff os.path.join(self.root, directory) exists
_check_integrity(d, root, split) == exists(d, dirpath(root, metadata[split].directory))

\* _download returns early when the directory is there
fetch_needed(d, o) == ~_check_integrity(d, o.root, o.split)

\* What download_and_extract_archive can do: extract the archive with or without
\* the expected directory in it, or raise (network, or md5 when checksum is set).
Outcomes(o) ==
    {"extracted", "no_directory", "network_error"}
    \cup (IF o.checksum THEN {"md5_mismatch"} ELSE {})

download_and_extract_archive(d, o, arch, out) ==
    IF out = "extracted"
    THEN [q \in DOMAIN d \cup {dirpath(o.root, metadata[o.split].directory)} |->
            IF q = dirpath(o.root, metadata[o.split].directory) THEN arch ELSE d[q]]
    ELSE d

\* the defaults of ETCI2021.__init__'s split, transforms and download parameters
DefaultSplit == "train"

DefaultTransforms == "None"

DefaultDownload == FALSE

\* a new call of ETCI2021(root, split, transforms, download, checksum)
NewDataset(root, split, transforms, download, checksum) ==
    [root |-> root, split |-> split, transforms |-> transforms,
     download |-> download, checksum |-> checksum,
     pc |-> "new", files |-> <<>>, trace |-> <<>>]

Event(o, e) == Append(o.trace, e)

\* line 106, and the assignments up to line 113
assert_split(o) ==
    IF valid_split(o.split)
    THEN [o EXCEPT !.pc = IF o.download THEN "download" ELSE "check",
                   !.trace = Event(o, "assert")]
    ELSE [o EXCEPT !.pc = "AssertionError", !.trace = Event(o, "assert")]

\* self._download(): the object and the disk after it, for one outcome of the fetch
download_step(d, o, arch, out) ==
    IF o.split \notin DOMAIN metadata
    THEN [o |-> [o EXCEPT !.pc = "KeyError", !.trace = Event(o, "_download")], d |-> d]
    ELSE IF ~fetch_needed(d, o)
    THEN [o |-> [o EXCEPT !.pc = "check", !.trace = Event(o, "_download")], d |-> d]
    ELSE [o |-> [o EXCEPT !.pc = IF out \in {"network_error", "md5_mismatch"}
                                 THEN "DownloadError" ELSE "check",
                          !.trace = Event(o, "_download") \o <<"fetch">>],
          d |-> download_and_extract_archive(d, o, arch, out)]

retry_download(o) == IF o.download THEN "download" ELSE "RuntimeError"

\* lines 116-120: what a failed integrity check leads to
not_found(o) == "RuntimeError"

\* if not self._check_integrity(): raise RuntimeError
check_step(d, o) ==
    IF o.split \notin DOMAIN metadata
    THEN [o EXCEPT !.pc = "KeyError", !.trace = Event(o, "_check_integrity")]
    ELSE [o EXCEPT !.pc = IF _check_integrity(d, o.root, o.split) THEN "load"
                          ELSE not_found(o),
                   !.trace = Event(o, "_check_integrity")]

\* self.files = self._load_files(self.root, self.split)
load_step(d, o, ord) ==
    [o EXCEPT !.pc = "constructed",
              !.files = _load_files(d, o.root, o.split, ord),
              !.trace = Event(o, "_load_files")]

\* ETCI2021.__init__ from its first line to its return or raise
__init__(d, root, split, transforms, download, checksum, arch, out, ord) ==
    LET o0 == NewDataset(root, split, transforms, download, checksum)
        o1 == assert_split(o0)
        r2 == IF o1.pc = "download" THEN download_step(d, o1, arch, out)
              ELSE [o |-> o1, d |-> d]
        o3 == IF r2.o.pc = "check" THEN check_step(r2.d, r2.o) ELSE r2.o
        o4 == IF o3.pc = "load" THEN load_step(r2.d, o3, ord) ELSE o3
    IN  [o |-> o4, d |-> r2.d]

----------------------------------------------------------------------------
(* ETCI2021.__getitem__ *)

\* img.convert("RGB"), then HxWxC -> CxHxW: three channels of one file
_load_image(path) ==
    <<[path |-> path, band |-> "R"], [path |-> path, band |-> "G"], [path |-> path, band |-> "B"]>>

mask_flood_first(files, split) ==
    IF split # "test" THEN <<files.flood_mask, files.water_mask>> ELSE <<files.water_mask>>

\* torch.stack([water_mask, flood_mask]) or water_mask.unsqueeze(0): the layers' files
\* (what _load_target makes of a file's pixels is modelled further down)
mask_layers(files, split) ==
    IF split # "test" THEN <<files.water_mask, files.flood_mask>> ELSE <<files.water_mask>>

\* the sample of lines 133-145; the dataset has no transforms to apply to it
getitem(o, index) ==
    LET files == o.files[index + 1]
    IN  [index |-> index,
         image |-> _load_image(files.vv) \o _load_image(files.vh),
         mask |-> mask_layers(files, o.split)]

NoSample == [index |-> -1, image |-> <<>>, mask |-> <<>>]

----------------------------------------------------------------------------
(* Directory trees the model starts from *)

PngFiles(n) == {[name |-> i, ext |-> "png"] : i \in 1..n}

StrayFiles(stray) == IF stray THEN {[name |-> 0, ext |-> "txt"]} ELSE {}

\* nf folders: the odd ones hold cnt[k] .png files of kind k, the even ones u
\* .png files of every kind (none at all when u = 0, as for an entry that has no
\* tiles directory); when stray, every kind also holds a file that is no .png.
Tree(nf, cnt, u, stray) ==
    [f \in 1..nf |-> [k \in Kinds |->
        PngFiles(IF f % 2 = 1 THEN cnt[k] ELSE u)
        \cup (IF f % 2 = 0 /\ u = 0 THEN {} ELSE StrayFiles(stray))]]

Trees ==
    {Tree(nf, cnt, u, stray) :
        nf \in 0..MaxFolders, cnt \in [Kinds -> 0..MaxFiles],
        u \in 0..MaxFiles, stray \in BOOLEAN}

UniformTree(nf, n) == Tree(nf, [k \in Kinds |-> n], n, FALSE)

\* n samples spread over two folders
SplitTree(n) ==
    [f \in 1..2 |-> [k \in Kinds |->
        PngFiles(IF f = 1 THEN n - (n \div 2) ELSE n \div 2)]]

Roots == {"data", "alt"}

SplitArgs == Splits \cup {"bogus"}

DmIdle == [root_dir |-> "data", seed |-> 0, pc |-> "idle"]

GpuIdle == <<>>

TargetIdle == [pc |-> "idle"]

\* any arguments, over any set of existing split directories
InitCtor ==
    /\ \E root \in Roots, split \in SplitArgs, download \in BOOLEAN, checksum \in BOOLEAN :
          ds = NewDataset(root, split, DefaultTransforms, download, checksum)
    /\ \E present \in SUBSET (Roots \X Directories), nf \in 0..1 :
          disk = [p \in present |-> UniformTree(nf, 1)]
    /\ remote = UniformTree(1, 1)

\* a valid split over any tree, on disk already or still to be downloaded
InitIndex ==
    /\ \E split \in Splits, download \in BOOLEAN :
          ds = NewDataset("data", split, DefaultTransforms, download, FALSE)
    /\ remote \in Trees
    /\ disk = IF ds.download THEN <<>>
              ELSE [p \in {"data"} \X Directories |-> remote]

Init ==
    /\ InitCtor \/ InitIndex
    /\ sample = NoSample
    /\ dm = DmIdle
    /\ gpu = GpuIdle
    /\ target = TargetIdle

----------------------------------------------------------------------------
(* Actions of the dataset *)

AssertSplit ==
    /\ ds.pc = "new"
    /\ ds' = assert_split(ds)
    /\ UNCHANGED <<disk, remote, sample, dm, gpu, target>>

Download ==
    /\ ds.pc = "download"
    /\ \E out \in Outcomes(ds) :
          LET r == download_step(disk, ds, remote, out)
          IN  ds' = r.o /\ disk' = r.d
    /\ UNCHANGED <<remote, sample, dm, gpu, target>>

CheckIntegrity ==
    /\ ds.pc = "check"
    /\ ds' = check_step(disk, ds)
    /\ UNCHANGED <<disk, remote, sample, dm, gpu, target>>

LoadFiles ==
    /\ ds.pc = "load"
    /\ \E ord \in Orders : ds' = load_step(disk, ds, ord)
    /\ UNCHANGED <<disk, remote, sample, dm, gpu, target>>

GetItem ==
    /\ ds.pc = "constructed"
    /\ ds.transforms = "None"
    /\ \E index \in 0..(Len(ds.files) - 1) : sample' = getitem(ds, index)
    /\ UNCHANGED <<disk, remote, ds, dm, gpu, target>>

Next == AssertSplit \/ Download \/ CheckIntegrity \/ LoadFiles \/ GetItem

Spec == Init /\ [][Next]_vars

----------------------------------------------------------------------------
(* Properties of the dataset constructor *)

\* the split's directory, for a valid split
SplitDir(o) == dirpath(o.root, metadata[o.split].directory)

Has(o, e) == e \in Range(o.trace)

\* C1: a split name that is not "train", "val" or "test" ends the constructor in
\* the assertion error as its first and only step: no download is attempted, the
\* directory is not checked and no file is indexed, whatever root, download and
\* checksum are.
C1_InvalidSplitFailsFast ==
    (ds.pc # "new" /\ ds.split \notin {"train", "val", "test"}) =>
        /\ ds.pc = "AssertionError"
        /\ ds.trace = <<"assert">>
        /\ ds.files = <<>>

C1_Witness ==
    /\ ds.pc = "AssertionError"
    /\ ds.split = "bogus"
    /\ ds.download
    /\ ds.checksum
    /\ ds.root = "alt"
    /\ ~exists(disk, dirpath("alt", "train"))

Rank(e) ==
    CASE e = "assert" -> 1
      [] e = "_download" -> 2
      [] e = "fetch" -> 3
      [] e = "_check_integrity" -> 4
      [] e = "_load_files" -> 5

C8_Order ==
    /\ \A i, j \in 1..Len(ds.trace) : i < j => Rank(ds.trace[i]) < Rank(ds.trace[j])
    /\ ds.trace # <<>> => ds.trace[1] = "assert"
    /\ Has(ds, "_download") => ds.download
    /\ Has(ds, "fetch") => Has(ds, "_download")
    /\ ds.pc \in {"load", "constructed", "RuntimeError"} => Has(ds, "_check_integrity")
    /\ Has(ds, "_load_files") => Has(ds, "_check_integrity")
    /\ ds.pc = "RuntimeError" =>
          /\ ds.trace[Len(ds.trace)] = "_check_integrity"
          /\ ~exists(disk, SplitDir(ds))
    /\ ds.pc \in {"load", "constructed"} => exists(disk, SplitDir(ds))
    /\ (Has(ds, "fetch") /\ ds.pc \notin {"check", "DownloadError"}
            /\ ~exists(disk, SplitDir(ds))) => ds.pc = "RuntimeError"

C8_FetchOnlyWhenAbsent ==
    (Has(ds', "fetch") /\ ~Has(ds, "fetch")) =>
        /\ ds.download
        /\ ~exists(disk, SplitDir(ds))

\* C8: the constructor's steps come in one fixed order, each at most once: the
\* split assertion, then (only when download=True) the download routine with at
\* most one fetch, then the one integrity check that decides between the not-found
\* error and indexing.  Nothing is fetched when download=False or when the split's
\* directory exists, and when the directory is still absent after the fetch has
\* returned the constructor ends in the not-found error without a second fetch.
C8_FixedOrderNoRetry == []C8_Order /\ [][C8_FetchOnlyWhenAbsent]_vars

C8_Witness ==
    /\ ds.pc = "RuntimeError"
    /\ ds.trace = <<"assert", "_download", "fetch", "_check_integrity">>

----------------------------------------------------------------------------
(* Properties of the file index *)

\* the kinds a record of the split draws from
KindsOf(split) == IF split = "test" THEN Kinds \ {"flood_label"} ELSE Kinds

KeyKind(key) ==
    CASE key = "vv" -> "vv"
      [] key = "vh" -> "vh"
      [] key = "water_mask" -> "water_body_label"
      [] key = "flood_mask" -> "flood_label"

PngNames(f, k) == {e.name : e \in {x \in disk[SplitDir(ds)][f][k] : x.ext = "png"}}

RecordsOf(f) == {i \in 1..Len(ds.files) : ds.files[i].vv.folder = f}

FoldersOnDisk == DOMAIN disk[SplitDir(ds)]

Indexed == {ds.files[i][key] : i \in 1..Len(ds.files), key \in {"vv", "vh", "water_mask"}}
           \cup {ds.files[i].flood_mask : i \in {j \in 1..Len(ds.files) : ds.split # "test"}}

\* C4 as stated: in every folder the number of records equals the number of vv,
\* of vh, of water-body and (train, val) of flood .png files.
C4_CountsMatchInEveryFolder ==
    ds.pc = "constructed" =>
        \A f \in FoldersOnDisk : \A k \in KindsOf(ds.split) :
            Cardinality(RecordsOf(f)) = Cardinality(PngNames(f, k))

\* C4 as amended: the number of records of a folder is the smallest of the numbers
\* of .png files of the kinds the split uses; so a folder holding N .png files of
\* each kind gives N records and every one of those files is in the index, while
\* the surplus files of a folder with unequal counts are left out.
C4_RecordsAreShortestCount ==
    ds.pc = "constructed" =>
        \A f \in FoldersOnDisk :
            LET counts == {Cardinality(PngNames(f, k)) : k \in KindsOf(ds.split)}
            IN  /\ Cardinality(RecordsOf(f)) = Min(counts)
                /\ Cardinality(counts) = 1 =>
                      \A k \in KindsOf(ds.split) : \A n \in PngNames(f, k) :
                          [dir |-> SplitDir(ds), folder |-> f, kind |-> k, name |-> n] \in Indexed

C4_Witness ==
    /\ ds.pc = "constructed"
    /\ \E f \in FoldersOnDisk :
          /\ Cardinality(RecordsOf(f)) = 1
          /\ Cardinality(PngNames(f, "vv")) = 2
          /\ Cardinality(PngNames(f, "vh")) = 1
    /\ \E f \in FoldersOnDisk :
          /\ Cardinality(RecordsOf(f)) = 2
          /\ \A k \in Kinds : Cardinality(PngNames(f, k)) = 2

C7_SortedZip ==
    ds.pc = "constructed" =>
        /\ \A i, j \in 1..Len(ds.files) : i < j =>
              /\ ds.files[i].vv.folder <= ds.files[j].vv.folder
              /\ ds.files[i].vv.folder = ds.files[j].vv.folder =>
                    ds.files[i].vv.name < ds.files[j].vv.name
        /\ \A i \in 1..Len(ds.files) : \A key \in DOMAIN ds.files[i] :
              LET f == ds.files[i].vv.folder
                  k == Cardinality({j \in RecordsOf(f) : j <= i})
              IN  /\ ds.files[i][key].folder = f
                  /\ ds.files[i][key].dir = SplitDir(ds)
                  /\ ds.files[i][key].name = Ascending(PngNames(f, KeyKind(key)))[k]

C7_Witness ==
    /\ ds.pc = "constructed"
    /\ Cardinality({ds.files[i].vv.folder : i \in 1..Len(ds.files)}) = 2
    /\ Len(ds.files) = 4

----------------------------------------------------------------------------
(* ETCI2021DataModule.setup and prepare_data *)

GPUs == {1, 2}

\* The double nearest to 0.8 is 0xCCCCCCCCCCCCD * 2^-52; its 52-bit significand
\* in two halves of 26 bits.
Double08Hi == 53687091

Double08Lo == 13421773

TwoPow26 == 67108864

\* int(0.8 * n): the exact product n * 0xCCCCCCCCCCCCD / 2^52, truncated.  (The
\* product is rounded to a double before int() truncates it; it lies within
\* n * 2^-54 above 0.8 * n, so rounding cannot carry it across an integer.)
int_0_8_times(n) == ((n * Double08Hi) + ((n * Double08Lo) \div TwoPow26)) \div TwoPow26

size_train(size_train_val) == int_0_8_times(size_train_val)

size_val_fifth(size_train_val, train) == size_train_val \div 5

size_val(size_train_val, train) == size_train_val - train

\* Generator().manual_seed(seed): a generator is its state, a number
LcgModulus == 16

manual_seed(seed) == seed % LcgModulus

next_state(st) == (5 * st + 3) % LcgModulus

default_generator(seed, default) == default

\* the generator line 419 hands to random_split; `default` is the state of the
\* process's default generator, which the call does not use
split_generator(seed, default) == manual_seed(seed)

InsertAt(s, pos, x) == SubSeq(s, 1, pos - 1) \o <<x>> \o SubSeq(s, pos, Len(s))

\* torch.randperm(n, generator): a permutation of 0..n-1 decided by the generator
RECURSIVE randperm(_, _)
randperm(n, st) ==
    IF n = 0 THEN <<>>
    ELSE InsertAt(randperm(n - 1, next_state(st)), (st % n) + 1, n - 1)

Subset(dataset, indices) == [dataset |-> dataset, indices |-> indices]

\* random_split(dataset, [a, b], generator): ValueError unless a + b = len(dataset)
random_split(dataset, a, b, st) ==
    IF a + b # Len(dataset.files) THEN <<>>
    ELSE LET indices == randperm(a + b, st)
         IN  <<Subset(dataset, SubSeq(indices, 1, a)),
               Subset(dataset, SubSeq(indices, a + 1, a + b))>>

NoDataset == NewDataset("", "", DefaultTransforms, FALSE, FALSE)

NoSubset == Subset(NoDataset, <<>>)

NewProcess(rng) ==
    [st |-> "new", setups |-> 0, rng |-> rng,
     train_dataset |-> NoSubset, val_dataset |-> NoSubset, test_dataset |-> NoDataset]

\* ETCI2021DataModule.setup in process g, its directory listings coming in order ord
setup(d, m, g, ord) ==
    LET train_val_dataset ==
            __init__(d, m.root_dir, "train", "preprocess", DefaultDownload, FALSE,
                     <<>>, "extracted", ord).o
        test_dataset ==
            __init__(d, m.root_dir, "val", "preprocess", DefaultDownload, FALSE,
                     <<>>, "extracted", ord).o
        size_train_val == Len(train_val_dataset.files)
        train == size_train(size_train_val)
        val == size_val(size_train_val, train)
        parts == random_split(train_val_dataset, train, val,
                              split_generator(m.seed, g.rng))
    IN  IF train_val_dataset.pc # "constructed"
        THEN [g EXCEPT !.st = train_val_dataset.pc, !.setups = @ + 1]
        ELSE IF test_dataset.pc # "constructed"
        THEN [g EXCEPT !.st = test_dataset.pc, !.setups = @ + 1]
        ELSE IF parts = <<>>
        THEN [g EXCEPT !.st = "ValueError", !.setups = @ + 1, !.test_dataset = test_dataset]
        ELSE [g EXCEPT !.st = "ready", !.setups = @ + 1, !.test_dataset = test_dataset,
                       !.train_dataset = parts[1], !.val_dataset = parts[2]]

\* ETCI2021(self.root_dir, checksum=False)
prepare_data(d, m, arch, out, ord) ==
    __init__(d, m.root_dir, DefaultSplit, DefaultTransforms, DefaultDownload, FALSE,
             arch, out, ord)

DmTree(directory, n, m) ==
    CASE directory = "train" -> SplitTree(n)
      [] directory = "test" -> SplitTree(m)
      [] OTHER -> SplitTree(1)

InitDM ==
    /\ \E seed \in 0..MaxSeed : dm = [root_dir |-> "data", seed |-> seed, pc |-> "new"]
    /\ \E present \in SUBSET Directories, n \in 0..MaxSamples, m \in {0, 1} :
          disk = [p \in {"data"} \X present |-> DmTree(p[2], n, m)]
    /\ remote = SplitTree(1)
    /\ ds = [NoDataset EXCEPT !.pc = "idle"]
    /\ sample = NoSample
    /\ \E r \in {0, 1} : gpu = [g \in GPUs |-> NewProcess(r * g)]
    /\ target = TargetIdle

PrepareData ==
    /\ dm.pc = "new"
    /\ \E out \in (IF DefaultDownload THEN Outcomes(NoDataset) ELSE {"extracted"}),
          ord \in Orders :
          LET r == prepare_data(disk, dm, remote, out, ord)
          IN  /\ ds' = r.o
              /\ disk' = r.d
              /\ dm' = [dm EXCEPT !.pc = IF r.o.pc = "constructed" THEN "prepared" ELSE r.o.pc]
    /\ UNCHANGED <<remote, sample, gpu, target>>

Setup(g) ==
    /\ dm.pc \in {"new", "prepared"}
    /\ gpu[g].setups < MaxSetups
    /\ \E ord \in Orders :
          gpu' = [gpu EXCEPT ![g] = setup(disk, dm, gpu[g], ord)]
    /\ UNCHANGED <<disk, remote, ds, sample, dm, target>>

NextDM == PrepareData \/ \E g \in GPUs : Setup(g)

SpecDM == InitDM /\ [][NextDM]_vars

----------------------------------------------------------------------------
(* Properties of the data module *)

TrainDir == dirpath(dm.root_dir, "train")

SamplesOnDisk(p) ==
    IF exists(disk, p) THEN Cardinality(UNION {{<<f, e>> : e \in disk[p][f]["vv"]} : f \in DOMAIN disk[p]})
    ELSE 0

\* C5 as stated: when prepare_data has ended the train directory is there, and
\* when it was absent before the call a download was performed.
C5_PrepareDataEnsuresDownload ==
    [][(dm.pc = "new" /\ dm'.pc # "new") =>
          /\ exists(disk', TrainDir)
          /\ ~exists(disk, TrainDir) => Has(ds', "fetch")]_vars

\* C3: after setup on a train split of n samples the train subset has floor(4n/5)
\* indices and the validation subset the other n - floor(4n/5); the two are
\* disjoint, without repeats, and together are 0..n-1; and the test dataset is
\* the "val" split (directory test, records with flood masks), not the "test" one.
C3_SplitSizesAndPartition ==
    \A g \in GPUs :
        /\ gpu[g].st # "ValueError"
        /\ gpu[g].st = "ready" =>
              LET tr == gpu[g].train_dataset
                  va == gpu[g].val_dataset
                  te == gpu[g].test_dataset
                  n == Len(tr.dataset.files)
              IN  /\ tr.dataset.split = "train" /\ va.dataset = tr.dataset
                  /\ n = SamplesOnDisk(TrainDir)
                  /\ Len(tr.indices) = (4 * n) \div 5
                  /\ Len(va.indices) = n - ((4 * n) \div 5)
                  /\ Len(tr.indices) + Len(va.indices) = n
                  /\ Cardinality(Range(tr.indices)) = Len(tr.indices)
                  /\ Cardinality(Range(va.indices)) = Len(va.indices)
                  /\ Range(tr.indices) \cap Range(va.indices) = {}
                  /\ Range(tr.indices) \cup Range(va.indices) = 0..(n - 1)
                  /\ te.split = "val" /\ te.transforms = "preprocess"
                  /\ Len(te.files) = SamplesOnDisk(dirpath(dm.root_dir, "test"))
                  /\ \A i \in 1..Len(te.files) :
                        /\ "flood_mask" \in DOMAIN te.files[i]
                        /\ te.files[i].vv.dir = dirpath(dm.root_dir, "test")

C3_Witness ==
    /\ gpu[1].st = "ready"
    /\ Len(gpu[1].train_dataset.dataset.files) = 5
    /\ Len(gpu[1].train_dataset.indices) = 4
    /\ Len(gpu[1].val_dataset.indices) = 1
    /\ Len(gpu[1].test_dataset.files) = 1
    /\ exists(disk, dirpath("data", "test_internal"))

C9_SameAcrossProcesses ==
    \A g, h \in GPUs : (gpu[g].st = "ready" /\ gpu[h].st = "ready") =>
        /\ gpu[g].train_dataset.indices = gpu[h].train_dataset.indices
        /\ gpu[g].val_dataset.indices = gpu[h].val_dataset.indices
        /\ gpu[g].train_dataset.dataset.files = gpu[h].train_dataset.dataset.files

C9_SameAfterEarlierSetup ==
    \A g \in GPUs : (gpu[g].st = "ready" /\ gpu'[g].st = "ready") =>
        /\ gpu'[g].train_dataset = gpu[g].train_dataset
        /\ gpu'[g].val_dataset = gpu[g].val_dataset

\* C9: runs of setup with the same seed over the same directory contents give the
\* same train subset and the same validation subset, index for index and file for
\* file, in every process; neither an earlier setup call, nor the state of the
\* process's default generator, nor the order in which directories are listed
\* changes the partition.
C9_SplitIsDeterministic == []C9_SameAcrossProcesses /\ [][C9_SameAfterEarlierSetup]_vars

C9_Witness ==
    /\ gpu[1].st = "ready" /\ gpu[2].st = "ready"
    /\ gpu[1].setups = 2 /\ gpu[2].setups = 1
    /\ gpu[1].rng # gpu[2].rng
    /\ Len(gpu[1].train_dataset.indices) = 3
    /\ gpu[1].train_dataset.indices # <<0, 1, 2>>

----------------------------------------------------------------------------
(* ETCI2021._load_target and ETCI2021DataModule.preprocess on one pixel *)

\* the values of an 8-bit grey pixel
Pixels == 0..255

EdgePixels == {0, 1, 254, 255}

\* a pixel of a mask file: grey level v, stored as mode L or as grey RGB (v, v, v)
MaskPixel(mode, v) == [mode |-> mode, v |-> v]

\* img.convert("L"): a mode-L pixel as it is, an RGB pixel by Pillow's
\* (R * 19595 + G * 38470 + B * 7471 + 0x8000) >> 16
convert_L(px) ==
    IF px.mode = "L" THEN px.v
    ELSE (px.v * 19595 + px.v * 38470 + px.v * 7471 + 32768) \div 65536

scale_to_unit(x, min, max) == x \div 255

\* torch.clamp(tensor, min=0, max=1)
clamp(x, min, max) == IF x < min THEN min ELSE IF x > max THEN max ELSE x

\* the clamped uint8 value is kept by .to(torch.long)
_load_target(px) == clamp(convert_L(px), 0, 1)

band_means == <<"0.52253931", "0.52253931", "0.52253931",
                "0.61221701", "0.61221701", "0.61221701", "0">>

band_stds == <<"0.35221376", "0.35221376", "0.35221376",
               "0.37364622", "0.37364622", "0.37364622", "1">>

\* a channel before preprocess: its source, not yet scaled or normalised
Channel(src) == [src |-> src, div |-> 1, mean |-> "0", std |-> "1"]

\* (flood_mask > 0).long()
positive(x) == IF x > 0 THEN 1 ELSE 0

\* preprocess: the water mask becomes the seventh input channel, the image is
\* divided by 255 and normalised per band, the flood mask becomes the target
preprocess(s) ==
    LET image == s.image \o <<Channel(<<"water_mask", s.mask[1]>>)>>
    IN  [image |-> [c \in 1..Len(image) |->
                       [image[c] EXCEPT !.div = 255, !.mean = band_means[c], !.std = band_stds[c]]],
         mask |-> positive(s.mask[2])]

InitTarget ==
    /\ \E p \in Pixels, q \in Pixels, mp \in {"L", "RGB"}, mq \in {"L", "RGB"} :
          /\ p \in EdgePixels \/ q \in EdgePixels
          /\ target = [pc |-> "file", water |-> MaskPixel(mp, p), flood |-> MaskPixel(mq, q),
                       sample |-> [image |-> <<>>, mask |-> <<>>]]
    /\ disk = <<>>
    /\ remote = <<>>
    /\ ds = [NoDataset EXCEPT !.pc = "idle"]
    /\ sample = NoSample
    /\ dm = DmIdle
    /\ gpu = GpuIdle

\* __getitem__ of a train or val sample whose masks hold the pixels water, flood
LoadTargets ==
    /\ target.pc = "file"
    /\ target' = [target EXCEPT
          !.pc = "loaded",
          !.sample = [image |-> [c \in 1..6 |-> Channel(<<"vv", "vh">>[((c - 1) \div 3) + 1])],
                      mask |-> <<_load_target(target.water), _load_target(target.flood)>>]]
    /\ UNCHANGED <<disk, remote, ds, sample, dm, gpu>>

Preprocess ==
    /\ target.pc = "loaded"
    /\ target' = [target EXCEPT !.pc = "preprocessed", !.sample = preprocess(target.sample)]
    /\ UNCHANGED <<disk, remote, ds, sample, dm, gpu>>

NextTarget == LoadTargets \/ Preprocess

SpecTarget == InitTarget /\ [][NextTarget]_vars

Label(px) == IF px.v = 0 THEN 0 ELSE 1

\* C10: for every grey value p in 0..255 of a mask file the loaded label is 0
\* when p = 0 and 1 when p >= 1, in the water layer and in the flood layer alike,
\* and preprocess hands the flood layer on unchanged as the 0/1 target.
C10_MaskIsBinary ==
    /\ target.pc = "loaded" =>
          /\ target.sample.mask = <<Label(target.water), Label(target.flood)>>
          /\ \A l \in 1..2 : target.sample.mask[l] \in {0, 1}
    /\ target.pc = "preprocessed" =>
          /\ target.sample.mask = Label(target.flood)
          /\ target.sample.mask \in {0, 1}
          /\ target.sample.image[7].src = <<"water_mask", Label(target.water)>>

C10_Witness ==
    /\ target.pc = "preprocessed"
    /\ target.water = MaskPixel("L", 255)
    /\ target.flood = MaskPixel("L", 1)
    /\ target.sample.mask = 1

====
